---- MODULE Spec2Model ----
(***************************************************************************)
(* A model of the three programs of the w2v_did repository:                *)
(*                                                                         *)
(*   DidMain.py                     the configuration-driven train/test    *)
(*                                  script (SpecDid)                       *)
(*   com_voice_speech_corpus5.py    ComVoiceSpeechCorpus5._generate_examples*)
(*                                  (SpecGen)                              *)
(*   klaam-modified/run_classifier.py                                      *)
(*                                  DataCollatorCTCWithPadding (SpecCol)   *)
(*                                  and main (SpecMain)                    *)
(*                                                                         *)
(* Each program has its own variables and its own specification; a         *)
(* specification leaves the variables of the other programs at their idle  *)
(* values.  External collaborators (the runner, the scheduler, wandb.log,  *)
(* processor.pad, the trainer) are modelled by the record of the calls     *)
(* made to them, and are assumed to return.                                *)
(***************************************************************************)
EXTENDS Integers, Sequences, FiniteSets, TLC

VARIABLES
    \* ---- DidMain.py
    pc,             \* position of the script
    cfg,            \* the configuration read from the json file
    sawDevices,     \* torch.cuda.device_count()
    epoch,          \* the loop variable
    model,          \* the value bound to `model`
    optimizer,      \* the value bound to `optimizer`
    scheduler,      \* the value bound to `scheduler`
    loss_function,  \* the value bound to `loss_function`
    runner,         \* the DidModelRunner and what it was given
    calls,          \* calls made to runner / scheduler / wandb.log, in order
    exitWith,       \* the exception that ended the script, and its argument
    \* ---- com_voice_speech_corpus5.py
    gpc,            \* position of the generator
    listing,        \* the directory tree under archive_path (os.listdir order)
    paths, labls,   \* the two lists of lines 95-96
    data,           \* the zipped, shuffled list of line 106
    gi,             \* the loop variable i of line 109
    out,            \* what the generator has yielded so far
    genError,       \* the exception that ended the generator
    \* ---- run_classifier.py, DataCollatorCTCWithPadding
    cpc,            \* position: before __call__, after it, after compute_metrics
    collator,       \* the fields of the DataCollatorCTCWithPadding
    features,       \* the argument of __call__
    padCall,        \* the call made to processor.pad
    batch,          \* what __call__ returned
    metricLabels,   \* `labels` of compute_metrics
    colError,       \* the exception raised, if any
    \* ---- run_classifier.py, main
    mpc,            \* position of main
    args,           \* the parsed arguments and the file system they name
    last_checkpoint,\* the local of line 123
    loaded,         \* which of datasets / model / trainer exist
    trainArg,       \* resume_from_checkpoint of the call to trainer.train
    evalCalled,     \* whether trainer.evaluate was called
    raised          \* the exception that ended main

didVars  == <<pc, cfg, sawDevices, epoch, model, optimizer, scheduler,
              loss_function, runner, calls, exitWith>>
genVars  == <<gpc, listing, paths, labls, data, gi, out, genError>>
colVars  == <<cpc, collator, features, padCall, batch, metricLabels, colError>>
mainVars == <<mpc, args, last_checkpoint, loaded, trainArg, evalCalled, raised>>
vars     == <<didVars, genVars, colVars, mainVars>>

None == "None"

(***************************************************************************)
(* Bounds of the model.                                                    *)
(***************************************************************************)
MaxEpochs   == 3    \* general.epochs ranges over 0..MaxEpochs
MaxInterval == 3    \* general.model_save_interval ranges over -2..MaxInterval
MaxDevices  == 3    \* torch.cuda.device_count() ranges over 0..MaxDevices

(***************************************************************************)
(* Python's integer remainder: the result takes the sign of the divisor.   *)
(* A zero divisor raises ZeroDivisionError and is decided by the caller.   *)
(***************************************************************************)
PyMod(a, n) == IF n > 0 THEN a % n ELSE -((-a) % (-n))

\* ======================================================================
\*                               DidMain.py
\* ======================================================================

Optimizers    == {"adam", "sgd"}
LossFunctions == {"nllLoss", "crossEntropy"}

\* The configurations the script is run with.  has_batch_size tells whether
\* the json has a TOP-LEVEL key batch_size (the one `config.batch_size`
\* reads); data.batch_size, which the data loaders read, is always there.
Configs ==
    [ optimizer           : Optimizers,
      loss_function       : LossFunctions,
      epochs              : 0..MaxEpochs,
      model_save_interval : (-2)..MaxInterval,
      has_batch_size      : BOOLEAN,
      batch_size          : {0, 4} ]

NoOptimizer == [kind |-> None, params |-> None]
NoRunner    == [created |-> FALSE, model |-> None, optimizer |-> NoOptimizer,
                scheduler |-> None, loss_function |-> None]
NoExit      == <<None, None>>

IdleCfg == [optimizer |-> None, loss_function |-> None, epochs |-> 0,
            model_save_interval |-> 1, has_batch_size |-> FALSE, batch_size |-> 0]

DidIdle ==
    /\ pc = "idle" /\ cfg = IdleCfg /\ sawDevices = 0 /\ epoch = 0
    /\ model = None /\ optimizer = NoOptimizer /\ scheduler = None
    /\ loss_function = None /\ runner = NoRunner /\ calls = <<>>
    /\ exitWith = NoExit

DidInit ==
    /\ pc = "start"
    /\ cfg \in { c \in Configs : c.has_batch_size \/ c.batch_size = 0 }
    /\ sawDevices \in 0..MaxDevices
    /\ epoch = 0
    /\ model = None /\ optimizer = NoOptimizer /\ scheduler = None
    /\ loss_function = None /\ runner = NoRunner /\ calls = <<>>
    /\ exitWith = NoExit

\* lines 16-71: read the configuration, start wandb, build the data sets and
\* the DidModel.
Setup ==
    /\ pc = "start"
    /\ model' = "DidModel"
    /\ pc' = "wrap_model"
    /\ UNCHANGED <<cfg, sawDevices, epoch, optimizer, scheduler, loss_function,
                   runner, calls, exitWith>>
    /\ UNCHANGED <<genVars, colVars, mainVars>>

\* lines 73-86: wrap the model when there is more than one GPU, then build the
\* data loaders.
WrapModel ==
    /\ pc = "wrap_model"
    /\ model' = IF sawDevices > 1 THEN "DataParallelModel(DidModel)" ELSE model
    /\ pc' = "optimizer"
    /\ UNCHANGED <<cfg, sawDevices, epoch, optimizer, scheduler, loss_function,
                   runner, calls, exitWith>>
    /\ UNCHANGED <<genVars, colVars, mainVars>>

\* A slip that lets an unsupported optimizer fall through to a default.
BuildOptimizerNoExit ==
    /\ pc = "optimizer"
    /\ optimizer' = [kind |-> "Adam", params |-> model]
    /\ pc' = "scheduler"
    /\ UNCHANGED <<cfg, sawDevices, epoch, model, scheduler, loss_function,
                   runner, calls, exitWith>>
    /\ UNCHANGED <<genVars, colVars, mainVars>>

\* lines 88-97: optim.Adam(model.parameters(), ...) or SystemExit.
BuildOptimizer ==
    /\ pc = "optimizer"
    /\ IF cfg.optimizer = "adam"
         THEN /\ optimizer' = [kind |-> "Adam", params |-> model]
              /\ pc' = "scheduler"
              /\ UNCHANGED exitWith
         ELSE /\ exitWith' = <<"SystemExit", "optimizer">>
              /\ pc' = "exited"
              /\ UNCHANGED optimizer
    /\ UNCHANGED <<cfg, sawDevices, epoch, model, scheduler, loss_function,
                   runner, calls>>
    /\ UNCHANGED <<genVars, colVars, mainVars>>

\* lines 99-104: StepLR over the optimizer.
BuildScheduler ==
    /\ pc = "scheduler"
    /\ scheduler' = "StepLR"
    /\ pc' = "loss"
    /\ UNCHANGED <<cfg, sawDevices, epoch, model, optimizer, loss_function,
                   runner, calls, exitWith>>
    /\ UNCHANGED <<genVars, colVars, mainVars>>

\* lines 106-110: F.nll_loss or SystemExit.
BuildLoss ==
    /\ pc = "loss"
    /\ IF cfg.loss_function = "nllLoss"
         THEN /\ loss_function' = "nll_loss"
              /\ pc' = "wrap_loss"
              /\ UNCHANGED exitWith
         ELSE /\ exitWith' = <<"SystemExit", "loss_function">>
              /\ pc' = "exited"
              /\ UNCHANGED loss_function
    /\ UNCHANGED <<cfg, sawDevices, epoch, model, optimizer, scheduler,
                   runner, calls>>
    /\ UNCHANGED <<genVars, colVars, mainVars>>

\* A slip in the device test of the loss wrapping.
WrapLossOffByOne ==
    /\ pc = "wrap_loss"
    /\ loss_function' = IF sawDevices > 2
                          THEN "DataParallelCriterion(nll_loss)"
                          ELSE loss_function
    /\ pc' = "runner"
    /\ UNCHANGED <<cfg, sawDevices, epoch, model, optimizer, scheduler,
                   runner, calls, exitWith>>
    /\ UNCHANGED <<genVars, colVars, mainVars>>

\* lines 112-115: wrap the loss function when there is more than one GPU.
WrapLoss ==
    /\ pc = "wrap_loss"
    /\ loss_function' = IF sawDevices > 1
                          THEN "DataParallelCriterion(nll_loss)"
                          ELSE loss_function
    /\ pc' = "runner"
    /\ UNCHANGED <<cfg, sawDevices, epoch, model, optimizer, scheduler,
                   runner, calls, exitWith>>
    /\ UNCHANGED <<genVars, colVars, mainVars>>

\* lines 117-128: DidModelRunner(model=model, optimizer=optimizer, ...).
CreateRunner ==
    /\ pc = "runner"
    /\ runner' = [created |-> TRUE, model |-> model, optimizer |-> optimizer,
                  scheduler |-> scheduler, loss_function |-> loss_function]
    /\ pc' = "loop"
    /\ UNCHANGED <<cfg, sawDevices, epoch, model, optimizer, scheduler,
                   loss_function, calls, exitWith>>
    /\ UNCHANGED <<genVars, colVars, mainVars>>

\* lines 130-133: `for epoch in range(epochs)` and runner.train(epoch=epoch).
Train ==
    /\ pc = "loop"
    /\ epoch < cfg.epochs
    /\ calls' = Append(calls, <<"train", epoch>>)
    /\ pc' = "log_loss"
    /\ UNCHANGED <<cfg, sawDevices, epoch, model, optimizer, scheduler,
                   loss_function, runner, exitWith>>
    /\ UNCHANGED <<genVars, colVars, mainVars>>

\* line 134: wandb.log({"loss": closs / (len(dataset) / config.batch_size)}).
\* config.batch_size is the TOP-LEVEL key: wandb's Config raises for a key the
\* configuration does not have (KeyError or AttributeError, by wandb version),
\* and the division raises for a batch_size of 0.
LogLoss ==
    /\ pc = "log_loss"
    /\ IF ~cfg.has_batch_size
         THEN /\ \E e \in {"KeyError", "AttributeError"} :
                      exitWith' = <<e, "batch_size">>
              /\ pc' = "exited"
              /\ UNCHANGED calls
         ELSE IF cfg.batch_size = 0
         THEN /\ exitWith' = <<"ZeroDivisionError", "batch_size">>
              /\ pc' = "exited"
              /\ UNCHANGED calls
         ELSE /\ calls' = Append(calls, <<"log_loss", epoch>>)
              /\ pc' = "test_due"
              /\ UNCHANGED exitWith
    /\ UNCHANGED <<cfg, sawDevices, epoch, model, optimizer, scheduler,
                   loss_function, runner>>
    /\ UNCHANGED <<genVars, colVars, mainVars>>

\* line 136: `if epoch % model_save_interval == 0`.
TestDue ==
    /\ pc = "test_due"
    /\ IF cfg.model_save_interval = 0
         THEN /\ exitWith' = <<"ZeroDivisionError", "model_save_interval">>
              /\ pc' = "exited"
         ELSE /\ pc' = IF PyMod(epoch, cfg.model_save_interval) = 0
                         THEN "test" ELSE "step"
              /\ UNCHANGED exitWith
    /\ UNCHANGED <<cfg, sawDevices, epoch, model, optimizer, scheduler,
                   loss_function, runner, calls>>
    /\ UNCHANGED <<genVars, colVars, mainVars>>

\* line 137: accuracy = runner.test(test_loader).
Test ==
    /\ pc = "test"
    /\ calls' = Append(calls, <<"test", epoch>>)
    /\ pc' = "log_accuracy"
    /\ UNCHANGED <<cfg, sawDevices, epoch, model, optimizer, scheduler,
                   loss_function, runner, exitWith>>
    /\ UNCHANGED <<genVars, colVars, mainVars>>

\* line 138: wandb.log({"accuracy": accuracy}).
LogAccuracy ==
    /\ pc = "log_accuracy"
    /\ calls' = Append(calls, <<"log_accuracy", epoch>>)
    /\ pc' = "step"
    /\ UNCHANGED <<cfg, sawDevices, epoch, model, optimizer, scheduler,
                   loss_function, runner, exitWith>>
    /\ UNCHANGED <<genVars, colVars, mainVars>>

\* line 143: scheduler.step(), then the next value of range(epochs).
SchedulerStep ==
    /\ pc = "step"
    /\ calls' = Append(calls, <<"step", epoch>>)
    /\ epoch' = epoch + 1
    /\ pc' = "loop"
    /\ UNCHANGED <<cfg, sawDevices, model, optimizer, scheduler,
                   loss_function, runner, exitWith>>
    /\ UNCHANGED <<genVars, colVars, mainVars>>

\* line 145: range(epochs) is exhausted; print('Finished Training').
Finish ==
    /\ pc = "loop"
    /\ epoch >= cfg.epochs
    /\ pc' = "finished"
    /\ UNCHANGED <<cfg, sawDevices, epoch, model, optimizer, scheduler,
                   loss_function, runner, calls, exitWith>>
    /\ UNCHANGED <<genVars, colVars, mainVars>>

DidNext ==
    \/ Setup \/ WrapModel \/ BuildOptimizer \/ BuildScheduler \/ BuildLoss
    \/ WrapLoss \/ CreateRunner \/ Train \/ LogLoss \/ TestDue \/ Test
    \/ LogAccuracy \/ SchedulerStep \/ Finish

\* ======================================================================
\*            com_voice_speech_corpus5.py, _generate_examples
\* ======================================================================

\* Bounds of the directory trees.  SliceLimit stands for the 4000 of line 100,
\* scaled down so that listings longer than the limit are within the bounds.
SliceLimit == 2     \* the `[:4000]` of line 100, scaled
MaxFiles   == 3     \* entries listed in one subdirectory
MaxTop     == 3     \* entries listed in archive_path

\* Names are sequences of characters, so that endswith and the f-string of
\* line 102 work on them as they do on Python strings.
NLD  == <<"N", "L", "D">>
ESP  == <<"E", "S", "P">>
XMp3 == <<"x", ".", "m", "p", "3">>
AMp3 == <<"a", ".", "m", "p", "3">>
BMp3 == <<"b", ".", "m", "p", "3">>
Mp3  == <<"m", "p", "3">>
DotMp3 == <<".", "m", "p", "3">>

wav_dir   == <<"/", "d">>
DirNames  == {NLD, ESP}
TopNames  == DirNames \cup {XMp3}
FileNames == {AMp3, BMp3, Mp3}

Min(a, b) == IF a <= b THEN a ELSE b

\* The sequences without repetition over S, of length at most n: what
\* os.listdir can return for a directory whose entries are among S.
DistinctSeqs(S, n) ==
    { s \in UNION { [1..k -> S] : k \in 0..Min(n, Cardinality(S)) } :
        \A i, j \in DOMAIN s : i # j => s[i] # s[j] }

FileListings == DistinctSeqs(FileNames, MaxFiles)

EntryChoices(n) ==
    IF n \in DirNames
      THEN { [name |-> n, isdir |-> TRUE, files |-> fl] : fl \in FileListings }
      ELSE { [name |-> n, isdir |-> FALSE, files |-> <<>>] }

RECURSIVE ListingsFor(_)
ListingsFor(ns) ==
    IF ns = <<>> THEN { <<>> }
    ELSE { <<e>> \o rest : e \in EntryChoices(Head(ns)),
                           rest \in ListingsFor(Tail(ns)) }

Listings == UNION { ListingsFor(ns) : ns \in DistinctSeqs(TopNames, MaxTop) }

\* str.endswith
EndsWith(s, suffix) ==
    /\ Len(s) >= Len(suffix)
    /\ SubSeq(s, Len(s) - Len(suffix) + 1, Len(s)) = suffix

\* the slice x[:k]
Take(x, k) == SubSeq(x, 1, Min(k, Len(x)))

\* the f-string f'{wav_dir}/{c}/{file}' of line 102
WavPath(w, c, file) == w \o <<"/">> \o c \o <<"/">> \o file

\* A slip that keeps the first SliceLimit '.mp3' files instead of the '.mp3'
\* files among the first SliceLimit entries.
RECURSIVE FilterMp3(_)
FilterMp3(files) ==
    IF files = <<>> THEN <<>>
    ELSE (IF EndsWith(Head(files), DotMp3) THEN <<Head(files)>> ELSE <<>>)
         \o FilterMp3(Tail(files))

CollectDirFilterFirst(w, c, files) ==
    LET kept == Take(FilterMp3(files), SliceLimit)
    IN  [ i \in 1..Len(kept) |-> <<WavPath(w, c, kept[i]), c>> ]

\* lines 100-104: the inner loop over one subdirectory, as the pairs
\* (wav_path, c) it appends to paths and labls.
RECURSIVE CollectFiles(_, _, _)
CollectFiles(w, c, files) ==
    IF files = <<>> THEN <<>>
    ELSE (IF EndsWith(Head(files), DotMp3)
            THEN << <<WavPath(w, c, Head(files)), c>> >>
            ELSE <<>>)
         \o CollectFiles(w, c, Tail(files))

CollectDir(w, c, files) == CollectFiles(w, c, Take(files, SliceLimit))

\* lines 98-104: the outer loop over os.listdir(wav_dir).
RECURSIVE CollectAll(_, _)
CollectAll(w, entries) ==
    IF entries = <<>> THEN <<>>
    ELSE (IF Head(entries).isdir
            THEN CollectDir(w, Head(entries).name, Head(entries).files)
            ELSE <<>>)
         \o CollectAll(w, Tail(entries))

\* zip(a, b): as long as the shorter of the two.
Zip(a, b) == [ i \in 1..Min(Len(a), Len(b)) |-> <<a[i], b[i]>> ]

\* The draws j = randbelow(i + 1), i = n-1, ..., 1, that
\* random.Random(4).shuffle makes on a list of n elements (CPython's
\* Mersenne Twister seeded with 4), for n = 0, ..., 9.
RandBelowSeed4 ==
    << <<>>,
       <<>>,
       <<0>>,
       <<0, 1>>,
       <<1, 1, 0>>,
       <<1, 2, 0, 1>>,
       <<1, 2, 0, 2, 1>>,
       <<1, 2, 0, 3, 1, 0>>,
       <<3, 2, 0, 3, 3, 0, 0>>,
       <<3, 4, 0, 5, 3, 3, 0, 0>> >>

Swap(x, i, j) == [x EXCEPT ![i] = x[j], ![j] = x[i]]

\* random.shuffle: for i in reversed(range(1, len(x))):
\*                     j = randbelow(i + 1); x[i], x[j] = x[j], x[i]
\* (i and j are Python's 0-based positions; k counts the draws.)
RECURSIVE ShuffleFrom(_, _, _, _)
ShuffleFrom(x, i, draws, k) ==
    IF i < 1 THEN x
    ELSE ShuffleFrom(Swap(x, i + 1, draws[k] + 1), i - 1, draws, k + 1)

\* line 107: random.Random(4).shuffle(data)
Shuffle(x) == ShuffleFrom(x, Len(x) - 1, RandBelowSeed4[Len(x) + 1], 1)

\* str(i) for i >= 0, as a sequence of characters.
Digits == <<"0", "1", "2", "3", "4", "5", "6", "7", "8", "9">>
RECURSIVE Str(_)
Str(i) == IF i < 10 THEN <<Digits[i + 1]>>
          ELSE Str(i \div 10) \o <<Digits[(i % 10) + 1]>>

GenIdle ==
    /\ gpc = "idle" /\ listing = <<>> /\ paths = <<>> /\ labls = <<>>
    /\ data = <<>> /\ gi = 0 /\ out = <<>> /\ genError = None

GenInit ==
    /\ gpc = "collect"
    /\ listing \in Listings
    /\ paths = <<>> /\ labls = <<>> /\ data = <<>> /\ gi = 0 /\ out = <<>>
    /\ genError = None

\* lines 93-104
Collect ==
    /\ gpc = "collect"
    /\ LET got == CollectAll(wav_dir, listing)
       IN  /\ paths' = [ i \in 1..Len(got) |-> got[i][1] ]
           /\ labls' = [ i \in 1..Len(got) |-> got[i][2] ]
    /\ gpc' = "shuffle"
    /\ UNCHANGED <<listing, data, gi, out, genError>>
    /\ UNCHANGED <<didVars, colVars, mainVars>>

\* lines 106-108: zip, shuffle, and `paths, labls = zip(*data)`, which raises
\* ValueError (not enough values to unpack) when data is empty.
ShuffleData ==
    /\ gpc = "shuffle"
    /\ LET d == Shuffle(Zip(paths, labls))
       IN  /\ data' = d
           /\ IF d = <<>>
                THEN /\ genError' = "ValueError"
                     /\ gpc' = "raised"
                     /\ UNCHANGED <<paths, labls>>
                ELSE /\ paths' = [ i \in 1..Len(d) |-> d[i][1] ]
                     /\ labls' = [ i \in 1..Len(d) |-> d[i][2] ]
                     /\ gpc' = "yield"
                     /\ UNCHANGED genError
    /\ UNCHANGED <<listing, gi, out>>
    /\ UNCHANGED <<didVars, colVars, mainVars>>

\* lines 109-114: one turn of the loop, yielding (str(i), example).
Yield ==
    /\ gpc = "yield"
    /\ gi < Len(paths)
    /\ out' = Append(out, [key |-> Str(gi),
                           example |-> [file  |-> paths[gi + 1],
                                        label |-> labls[gi + 1]]])
    /\ gi' = gi + 1
    /\ UNCHANGED <<gpc, listing, paths, labls, data, genError>>
    /\ UNCHANGED <<didVars, colVars, mainVars>>

\* range(len(paths)) is exhausted: the generator returns.
GenReturn ==
    /\ gpc = "yield"
    /\ gi >= Len(paths)
    /\ gpc' = "done"
    /\ UNCHANGED <<listing, paths, labls, data, gi, out, genError>>
    /\ UNCHANGED <<didVars, colVars, mainVars>>

GenNext == Collect \/ ShuffleData \/ Yield \/ GenReturn


\* ======================================================================
\*          run_classifier.py, DataCollatorCTCWithPadding
\* ======================================================================

MaxLabels == 3      \* number_of_labels ranges over 0..MaxLabels
MaxBatch  == 2      \* features holds at most MaxBatch entries

\* The values of the `padding` field (Python's True and False are written as
\* strings, beside the three strategy names).
Paddings == {"True", "False", "longest", "max_length", "do_not_pad"}

Collators ==
    [ padding            : Paddings,
      max_length         : {160000},
      pad_to_multiple_of : {160000},
      number_of_labels   : 0..MaxLabels ]

\* A feature: its input_values (named by their length) and its label.  Labels
\* outside 0..number_of_labels-1 are inputs __call__ can be given too.
Features == [ input_values : {1, 2}, labels : (-1)..MaxLabels ]

NoPadCall == [called |-> FALSE, inputs |-> <<>>, padding |-> None,
              max_length |-> 0, pad_to_multiple_of |-> 0, return_tensors |-> None]
NoBatch   == [returned |-> FALSE, input_values |-> <<>>, labels |-> <<>>]
IdleCollator == [padding |-> None, max_length |-> 0, pad_to_multiple_of |-> 0,
                 number_of_labels |-> 0]

\* A slip that sets the entry after the label's.
OneHotOffByOne(n, lbl) ==
    LET k == IF lbl < 0 THEN lbl + n ELSE lbl
    IN  [ i \in 1..n |-> IF i = ((k + 1) % n) + 1 THEN 1 ELSE 0 ]

\* lines 86-89: onehot = [0] * n; onehot[int(lbl)] = 1.  Python takes a
\* negative index from the end; k is the 0-based position written.
OneHot(n, lbl) ==
    LET k == IF lbl < 0 THEN lbl + n ELSE lbl
    IN  [ i \in 1..n |-> IF i = k + 1 THEN 1 ELSE 0 ]

\* The list assignment of line 88 raises IndexError outside -n..n-1.
IndexInRange(n, lbl) == -n <= lbl /\ lbl < n

\* argmax(-1) of one row: the 0-based position of the first maximum.
ArgMax(row) ==
    CHOOSE k \in 0..(Len(row) - 1) :
        /\ \A j \in 1..Len(row) : row[j] <= row[k + 1]
        /\ \A j \in 1..k : row[j] < row[k + 1]

ColIdle ==
    /\ cpc = "idle" /\ collator = IdleCollator /\ features = <<>>
    /\ padCall = NoPadCall /\ batch = NoBatch /\ metricLabels = <<>>
    /\ colError = None

ColInit ==
    /\ cpc = "start"
    /\ collator \in Collators
    /\ features \in UNION { [1..k -> Features] : k \in 0..MaxBatch }
    /\ padCall = NoPadCall /\ batch = NoBatch /\ metricLabels = <<>>
    /\ colError = None

\* lines 80-106: __call__.  The one-hot rows are built (line 91) before
\* processor.pad is called (line 93).
Collate ==
    /\ cpc = "start"
    /\ LET n == collator.number_of_labels
       IN  IF \E i \in DOMAIN features : ~IndexInRange(n, features[i].labels)
             THEN /\ colError' = "IndexError"
                  /\ cpc' = "raised"
                  /\ UNCHANGED <<padCall, batch>>
             ELSE /\ padCall' =
                        [ called             |-> TRUE,
                          inputs             |-> [ i \in DOMAIN features |->
                                                     features[i].input_values ],
                          padding            |-> "True",
                          max_length         |-> collator.max_length,
                          pad_to_multiple_of |-> collator.pad_to_multiple_of,
                          return_tensors     |-> "pt" ]
                  /\ batch' =
                        [ returned     |-> TRUE,
                          input_values |-> [ i \in DOMAIN features |->
                                               features[i].input_values ],
                          labels       |-> [ i \in DOMAIN features |->
                                               OneHot(n, features[i].labels) ] ]
                  /\ cpc' = "collated"
                  /\ UNCHANGED colError
    /\ UNCHANGED <<collator, features, metricLabels>>
    /\ UNCHANGED <<didVars, genVars, mainVars>>

\* lines 255-256: labels = pred.label_ids.argmax(-1), on the labels of the
\* batch; argmax of an empty array raises ValueError.
ComputeMetrics ==
    /\ cpc = "collated"
    /\ IF batch.labels = <<>>
         THEN /\ colError' = "ValueError"
              /\ cpc' = "raised"
              /\ UNCHANGED metricLabels
         ELSE /\ metricLabels' = [ i \in DOMAIN batch.labels |->
                                     ArgMax(batch.labels[i]) ]
              /\ cpc' = "measured"
              /\ UNCHANGED colError
    /\ UNCHANGED <<collator, features, padCall, batch>>
    /\ UNCHANGED <<didVars, genVars, mainVars>>

ColNext == Collate \/ ComputeMetrics

\* ======================================================================
\*                       run_classifier.py, main
\* ======================================================================

HubModel   == "facebook/wav2vec2-large-xlsr-53"
LocalModel == "local_model"
OutDir     == "out"

\* The checkpoint-<n> directories output_dir may hold.
CkptNumbers == {2, 10}
CkptPath(n) == IF n = 2 THEN "out/checkpoint-2" ELSE "out/checkpoint-10"

\* The runs of main: the command line, the three flags, what output_dir is
\* and holds, and model_name_or_path.
ArgSets ==
    { a \in [ json_argv            : BOOLEAN,
              output_isdir         : BOOLEAN,
              ckpts                : SUBSET CkptNumbers,
              other_files          : BOOLEAN,
              do_train             : BOOLEAN,
              do_eval              : BOOLEAN,
              overwrite_output_dir : BOOLEAN,
              model_name_or_path   : {HubModel, LocalModel, CkptPath(10)} ] :
        ~a.output_isdir => (a.ckpts = {} /\ ~a.other_files) }

IdleArgs == [json_argv |-> FALSE, output_isdir |-> FALSE, ckpts |-> {},
             other_files |-> FALSE, do_train |-> FALSE, do_eval |-> FALSE,
             overwrite_output_dir |-> FALSE, model_name_or_path |-> None]

NothingLoaded == [datasets |-> FALSE, model |-> FALSE, trainer |-> FALSE]
NotCalled     == "not called"

\* os.path.isdir(model_name_or_path)
ModelIsDir(a) ==
    \/ a.model_name_or_path = LocalModel
    \/ /\ a.model_name_or_path = CkptPath(10)
       /\ a.output_isdir /\ 10 \in a.ckpts

\* len(os.listdir(output_dir))
ListdirLen(a) == Cardinality(a.ckpts) + (IF a.other_files THEN 1 ELSE 0)

\* transformers' get_last_checkpoint(output_dir): the checkpoint-<n>
\* directory with the greatest n, or None.
GetLastCheckpoint(a) ==
    IF a.ckpts = {} THEN None
    ELSE CkptPath(CHOOSE n \in a.ckpts : \A m \in a.ckpts : m <= n)

MainIdle ==
    /\ mpc = "idle" /\ args = IdleArgs /\ last_checkpoint = None
    /\ loaded = NothingLoaded /\ trainArg = NotCalled /\ evalCalled = FALSE
    /\ raised = None

MainInit ==
    /\ mpc = "parse"
    /\ args \in ArgSets
    /\ last_checkpoint = None
    /\ loaded = NothingLoaded /\ trainArg = NotCalled /\ evalCalled = FALSE
    /\ raised = None

\* lines 114-120: one argument that ends in ".json", or exit(1).
ParseArgs ==
    /\ mpc = "parse"
    /\ IF args.json_argv
         THEN mpc' = "detect" /\ UNCHANGED raised
         ELSE mpc' = "raised" /\ raised' = "SystemExit"
    /\ UNCHANGED <<args, last_checkpoint, loaded, trainArg, evalCalled>>
    /\ UNCHANGED <<didVars, genVars, colVars>>

\* A slip that raises for an empty output_dir too.
DetectCheckpointEmptyRaises ==
    /\ mpc = "detect"
    /\ IF args.output_isdir /\ args.do_train /\ ~args.overwrite_output_dir
         THEN /\ last_checkpoint' = GetLastCheckpoint(args)
              /\ IF last_checkpoint' = None /\ ListdirLen(args) >= 0
                   THEN mpc' = "raised" /\ raised' = "ValueError"
                   ELSE mpc' = "datasets" /\ UNCHANGED raised
         ELSE /\ mpc' = "datasets"
              /\ UNCHANGED <<last_checkpoint, raised>>
    /\ UNCHANGED <<args, loaded, trainArg, evalCalled>>
    /\ UNCHANGED <<didVars, genVars, colVars>>

\* A slip that looks for a checkpoint whatever overwrite_output_dir says.
DetectCheckpointIgnoreOverwrite ==
    /\ mpc = "detect"
    /\ IF args.output_isdir /\ args.do_train
         THEN /\ last_checkpoint' = GetLastCheckpoint(args)
              /\ IF last_checkpoint' = None /\ ListdirLen(args) > 0
                   THEN mpc' = "raised" /\ raised' = "ValueError"
                   ELSE mpc' = "datasets" /\ UNCHANGED raised
         ELSE /\ mpc' = "datasets"
              /\ UNCHANGED <<last_checkpoint, raised>>
    /\ UNCHANGED <<args, loaded, trainArg, evalCalled>>
    /\ UNCHANGED <<didVars, genVars, colVars>>

\* lines 122-135: detecting the last checkpoint.
DetectCheckpoint ==
    /\ mpc = "detect"
    /\ IF args.output_isdir /\ args.do_train /\ ~args.overwrite_output_dir
         THEN /\ last_checkpoint' = GetLastCheckpoint(args)
              /\ IF last_checkpoint' = None /\ ListdirLen(args) > 0
                   THEN mpc' = "raised" /\ raised' = "ValueError"
                   ELSE mpc' = "datasets" /\ UNCHANGED raised
         ELSE /\ mpc' = "datasets"
              /\ UNCHANGED <<last_checkpoint, raised>>
    /\ UNCHANGED <<args, loaded, trainArg, evalCalled>>
    /\ UNCHANGED <<didVars, genVars, colVars>>

\* lines 137-171: logging, the seed, the labels and the two datasets.
LoadDatasets ==
    /\ mpc = "datasets"
    /\ loaded' = [loaded EXCEPT !.datasets = TRUE]
    /\ mpc' = "model"
    /\ UNCHANGED <<args, last_checkpoint, trainArg, evalCalled, raised>>
    /\ UNCHANGED <<didVars, genVars, colVars>>

\* lines 173-194: the processor and the model.
LoadModel ==
    /\ mpc = "model"
    /\ loaded' = [loaded EXCEPT !.model = TRUE]
    /\ mpc' = "trainer"
    /\ UNCHANGED <<args, last_checkpoint, trainArg, evalCalled, raised>>
    /\ UNCHANGED <<didVars, genVars, colVars>>

\* lines 196-292: preprocessing, the data collator and the DidTrainer.
InitTrainer ==
    /\ mpc = "trainer"
    /\ loaded' = [loaded EXCEPT !.trainer = TRUE]
    /\ mpc' = "train"
    /\ UNCHANGED <<args, last_checkpoint, trainArg, evalCalled, raised>>
    /\ UNCHANGED <<didVars, genVars, colVars>>

\* A slip that asks model_name_or_path before the detected checkpoint.
TrainingModelFirst ==
    /\ mpc = "train"
    /\ IF args.do_train
         THEN trainArg' = IF ModelIsDir(args) THEN args.model_name_or_path
                          ELSE IF last_checkpoint # None THEN last_checkpoint
                          ELSE None
         ELSE UNCHANGED trainArg
    /\ mpc' = "eval"
    /\ UNCHANGED <<args, last_checkpoint, loaded, evalCalled, raised>>
    /\ UNCHANGED <<didVars, genVars, colVars>>

\* lines 293-316: trainer.train(resume_from_checkpoint=checkpoint) and the
\* saving that follows it.
Training ==
    /\ mpc = "train"
    /\ IF args.do_train
         THEN trainArg' = IF last_checkpoint # None THEN last_checkpoint
                          ELSE IF ModelIsDir(args) THEN args.model_name_or_path
                          ELSE None
         ELSE UNCHANGED trainArg
    /\ mpc' = "eval"
    /\ UNCHANGED <<args, last_checkpoint, loaded, evalCalled, raised>>
    /\ UNCHANGED <<didVars, genVars, colVars>>

\* lines 318-329: trainer.evaluate() when do_eval is set; main returns.
Evaluation ==
    /\ mpc = "eval"
    /\ evalCalled' = args.do_eval
    /\ mpc' = "done"
    /\ UNCHANGED <<args, last_checkpoint, loaded, trainArg, raised>>
    /\ UNCHANGED <<didVars, genVars, colVars>>

MainNext ==
    \/ ParseArgs \/ DetectCheckpoint \/ LoadDatasets \/ LoadModel
    \/ InitTrainer \/ Training \/ Evaluation

\* ======================================================================
\*                           Specifications
\* ======================================================================

DidStart  == DidInit /\ GenIdle /\ ColIdle /\ MainIdle
GenStart  == GenInit /\ DidIdle /\ ColIdle /\ MainIdle
ColStart  == ColInit /\ DidIdle /\ GenIdle /\ MainIdle
MainStart == MainInit /\ DidIdle /\ GenIdle /\ ColIdle

SpecDid  == DidStart  /\ [][DidNext]_vars
SpecGen  == GenStart  /\ [][GenNext]_vars
SpecCol  == ColStart  /\ [][ColNext]_vars
SpecMain == MainStart /\ [][MainNext]_vars

\* ======================================================================
\*                        Properties of DidMain.py
\* ======================================================================

Supported  == cfg.optimizer = "adam" /\ cfg.loss_function = "nllLoss"
Terminated == pc \in {"finished", "exited"}
ModelIsWrapped == model = "DataParallelModel(DidModel)"
LossIsWrapped  == loss_function = "DataParallelCriterion(nll_loss)"

\* The positions in `calls` of the calls of one kind for one epoch.
At(kind, e) == { i \in DOMAIN calls : calls[i] = <<kind, e>> }
\* The epochs of the calls of one kind, in the order of the calls.
CallsOf(kind) == SelectSeq(calls, LAMBDA c : c[1] = kind)
EpochsOf(kind) == [ i \in 1..Len(CallsOf(kind)) |-> CallsOf(kind)[i][2] ]
UpTo(n) == [ i \in 1..n |-> i - 1 ]

\* What a finished run looks like when every epoch is trained once, in order,
\* and stepped once after its training and its test.
LoopContract ==
    /\ pc = "finished"
    /\ EpochsOf("train") = UpTo(cfg.epochs)
    /\ EpochsOf("step") = UpTo(cfg.epochs)
    /\ \A e \in 0..(cfg.epochs - 1) :
         \A s \in At("step", e) :
            /\ \A t \in At("train", e) : t < s
            /\ \A t \in At("test", e) : t < s

\* C1 (as claimed): for a configuration with a supported optimizer and loss
\* function and epochs = E >= 0, a run that has ended has trained every epoch
\* 0..E-1 exactly once in increasing order, has called scheduler.step exactly
\* once per epoch after that epoch's training and test, and has reached
\* 'Finished Training'.
C1_EveryEpochTrainedAndStepped ==
    (Supported /\ Terminated) => LoopContract

\* The loop does keep that contract for the configurations on which line 134
\* and line 136 evaluate: a top-level batch_size that is not 0 and a
\* model_save_interval that is not 0.
LoopContractWhenLinesEvaluate ==
    ( /\ Supported /\ Terminated
      /\ cfg.has_batch_size /\ cfg.batch_size # 0
      /\ cfg.model_save_interval # 0 ) => LoopContract

\* The epochs whose turn of the loop has begun and is over: the loop has moved
\* on to a later epoch, or the run has ended.
TurnOver(e) == At("train", e) # {} /\ (epoch > e \/ Terminated)

\* C8 (as claimed): with n = model_save_interval >= 1, runner.test is called
\* in epoch e if and only if e % n = 0, at most once, after that epoch's
\* runner.train and before its scheduler.step, its accuracy is logged before
\* the next epoch starts, and epoch 0 is tested whenever epochs >= 1.
C8_TestedEveryNEpochs ==
    cfg.model_save_interval >= 1 =>
      /\ \A e \in 0..MaxEpochs :
           /\ TurnOver(e) =>
                (At("test", e) # {} <=> e % cfg.model_save_interval = 0)
           /\ Cardinality(At("test", e)) <= 1
           /\ \A t \in At("test", e) :
                /\ \E r \in At("train", e) : r < t
                /\ \A st \in At("step", e) : t < st
                /\ TurnOver(e) => \E l \in At("log_accuracy", e) : t < l
           /\ \A l \in At("log_accuracy", e) :
                \A r \in At("train", e + 1) : l < r
      /\ (Supported /\ cfg.epochs >= 1 /\ Terminated) => At("test", 0) # {}

\* On the configurations on which line 134 evaluates, the test schedule is
\* the claimed one.
TestScheduleWhenLogLossEvaluates ==
    (cfg.has_batch_size /\ cfg.batch_size # 0) => C8_TestedEveryNEpochs

\* C9: once the runner exists, the model is wrapped in DataParallelModel
\* exactly when the loss function is wrapped in DataParallelCriterion, and
\* exactly when the device count is greater than 1; the optimizer was built
\* from the parameters of the model as it is after the wrapping decision; and
\* the runner holds that model, that optimizer and that loss function.  Before
\* that, a wrapped loss function never goes with an unwrapped model.
C9_WrappingConsistent ==
    /\ runner.created =>
         /\ ModelIsWrapped <=> LossIsWrapped
         /\ ModelIsWrapped <=> sawDevices > 1
         /\ optimizer.kind = "Adam" /\ optimizer.params = model
         /\ runner.model = model
         /\ runner.optimizer = optimizer
         /\ runner.loss_function = loss_function
    /\ LossIsWrapped => ModelIsWrapped
    /\ optimizer.kind # None =>
         optimizer.params = (IF sawDevices > 1 THEN "DataParallelModel(DidModel)"
                             ELSE "DidModel")

C9_Witness ==
    /\ runner.created /\ sawDevices = 2
    /\ ModelIsWrapped /\ LossIsWrapped
    /\ runner.model = "DataParallelModel(DidModel)"

\* C10: a configuration whose optimizer is not 'adam' or whose loss function
\* is not 'nllLoss' never gets a runner and never calls runner.train,
\* runner.test or scheduler.step; when its run has ended it ended with
\* SystemExit; and the optimizer is checked first: with an unsupported
\* optimizer the exit names the optimizer and no loss function was chosen.
C10_UnsupportedConfigExits ==
    ~Supported =>
      /\ ~runner.created
      /\ calls = <<>>
      /\ pc \in {"start", "wrap_model", "optimizer", "scheduler", "loss", "exited"}
      /\ Terminated => exitWith[1] = "SystemExit"
      /\ (pc = "exited" /\ cfg.optimizer # "adam") =>
            /\ exitWith = <<"SystemExit", "optimizer">>
            /\ loss_function = None /\ scheduler = None
      /\ (pc = "exited" /\ cfg.optimizer = "adam") =>
            exitWith = <<"SystemExit", "loss_function">>

C10_Witness ==
    /\ pc = "exited" /\ cfg.optimizer = "sgd" /\ cfg.loss_function = "crossEntropy"
    /\ exitWith = <<"SystemExit", "optimizer">>
    /\ cfg.epochs >= 1


\* ======================================================================
\*                   Properties of _generate_examples
\* ======================================================================

GenEnded == gpc \in {"done", "raised"}

\* The (file, label) pairs the generator owes: one for every entry that ends
\* in '.mp3' among the first SliceLimit entries listed in a subdirectory of
\* archive_path, labelled with the name of that subdirectory.
Eligible ==
    { <<WavPath(wav_dir, listing[d].name, listing[d].files[k]), listing[d].name>> :
        <<d, k>> \in { dk \in (DOMAIN listing) \X (1..MaxFiles + 1) :
                         /\ listing[dk[1]].isdir
                         /\ dk[2] <= Len(listing[dk[1]].files)
                         /\ dk[2] <= SliceLimit
                         /\ EndsWith(listing[dk[1]].files[dk[2]], DotMp3) } }

\* The subdirectory `label` of archive_path lists an entry whose path is `file`.
Contains(label, file) ==
    \E d \in DOMAIN listing :
        /\ listing[d].isdir /\ listing[d].name = label
        /\ \E k \in DOMAIN listing[d].files :
               file = WavPath(wav_dir, label, listing[d].files[k])

Yielded == { <<out[i].example.file, out[i].example.label>> : i \in DOMAIN out }

\* C2: the generator yields exactly one example for every eligible file and
\* nothing else; the label of every yielded example is the name of the
\* subdirectory that contains its file; and the keys yielded are the distinct
\* strings '0', '1', ..., str(n-1), in that order, n being the number of
\* eligible files.
C2_OneExamplePerEligibleFile ==
    /\ \A i \in DOMAIN out :
          /\ out[i].key = Str(i - 1)
          /\ <<out[i].example.file, out[i].example.label>> \in Eligible
          /\ Contains(out[i].example.label, out[i].example.file)
    /\ \A i, j \in DOMAIN out :
          i # j => /\ out[i].key # out[j].key
                   /\ out[i].example.file # out[j].example.file
    /\ GenEnded => /\ Yielded = Eligible
                   /\ Len(out) = Cardinality(Eligible)

\* A run in which a listing longer than the limit was cut, a non-'.mp3' entry
\* and a top-level '.mp3' file were passed over, and the shuffle moved the
\* pairs of two subdirectories.
C2_Witness ==
    /\ gpc = "done"
    /\ Len(out) >= 3
    /\ \E d \in DOMAIN listing : listing[d].isdir /\ Len(listing[d].files) > SliceLimit
    /\ \E d \in DOMAIN listing : ~listing[d].isdir
    /\ out[1].example.label # out[Len(out)].example.label
    /\ <<out[1].example.file, out[1].example.label>> # CollectAll(wav_dir, listing)[1]


\* ======================================================================
\*               Properties of DataCollatorCTCWithPadding
\* ======================================================================

LabelsInRange ==
    \A i \in DOMAIN features :
        0 <= features[i].labels /\ features[i].labels < collator.number_of_labels

\* C3: when every label l_i is an integer with 0 <= l_i < number_of_labels,
\* __call__ returns a batch whose labels have one row per feature, in input
\* order, each of length number_of_labels with a single 1, at index l_i, and 0
\* elsewhere; and the argmax compute_metrics takes over each row is l_i.
C3_OneHotRowPerFeature ==
    (LabelsInRange /\ cpc # "start") =>
      /\ colError # "IndexError"
      /\ batch.returned
      /\ Len(batch.labels) = Len(features)
      /\ \A i \in DOMAIN features :
           /\ Len(batch.labels[i]) = collator.number_of_labels
           /\ \A k \in 0..(collator.number_of_labels - 1) :
                batch.labels[i][k + 1] = (IF k = features[i].labels THEN 1 ELSE 0)
      /\ cpc = "measured" =>
           /\ Len(metricLabels) = Len(features)
           /\ \A i \in DOMAIN features : metricLabels[i] = features[i].labels

C3_Witness ==
    /\ cpc = "measured" /\ LabelsInRange
    /\ Len(features) = 2
    /\ features[1].labels = 2 /\ features[2].labels = 0
    /\ batch.labels = << <<0, 0, 1>>, <<1, 0, 0>> >>
    /\ metricLabels = <<2, 0>>

\* C4 (as claimed): the padding strategy handed to processor.pad is the value
\* of the collator's `padding` field.
C4_PadUsesPaddingField ==
    padCall.called =>
       \/ padCall.padding = collator.padding
       \/ {padCall.padding, collator.padding} = {"True", "longest"}
       \/ {padCall.padding, collator.padding} = {"False", "do_not_pad"}

\* What the code does instead: whenever processor.pad is called, it is called
\* with padding=True.
PadAlwaysLongest == padCall.called => padCall.padding = "True"

\* ======================================================================
\*                  Properties of run_classifier.main
\* ======================================================================

\* C5: with output_dir an existing directory, do_train set and
\* overwrite_output_dir not set, main raises ValueError exactly when
\* output_dir holds no checkpoint and is not empty, and it does so before any
\* dataset or model is loaded and before trainer.train is called; an empty
\* output_dir, one that holds a checkpoint, overwrite_output_dir set or
\* do_train unset never raise it.
C5_NonEmptyOutputDirRaises ==
    /\ (args.json_argv /\ mpc \notin {"idle", "parse", "detect"}) =>
         ( raised = "ValueError" <=>
             /\ args.output_isdir /\ args.do_train /\ ~args.overwrite_output_dir
             /\ args.ckpts = {} /\ args.other_files )
    /\ raised = "ValueError" =>
         /\ mpc = "raised"
         /\ loaded = NothingLoaded
         /\ trainArg = NotCalled /\ ~evalCalled

C5_Witness ==
    /\ raised = "ValueError" /\ mpc = "raised"
    /\ args.output_isdir /\ args.do_train /\ ~args.overwrite_output_dir
    /\ args.ckpts = {} /\ args.other_files
    /\ loaded = NothingLoaded /\ trainArg = NotCalled

\* A last checkpoint is detected in output_dir: the detection runs and
\* output_dir holds a checkpoint directory.
Detected ==
    /\ args.output_isdir /\ args.do_train /\ ~args.overwrite_output_dir
    /\ args.ckpts # {}
NewestCheckpoint == CkptPath(CHOOSE n \in args.ckpts : \A m \in args.ckpts : m <= n)

\* C6: trainer.train is called only with do_train set; when a last checkpoint
\* was detected in output_dir it is called with that checkpoint, whatever
\* model_name_or_path is; when none was detected it is called with
\* model_name_or_path if that is a directory and with None otherwise.
C6_DetectedCheckpointFirst ==
    trainArg # NotCalled =>
      /\ args.do_train
      /\ Detected => trainArg = NewestCheckpoint /\ trainArg = last_checkpoint
      /\ ~Detected =>
           /\ last_checkpoint = None
           /\ trainArg = (IF ModelIsDir(args) THEN args.model_name_or_path ELSE None)

C6_Witness ==
    /\ trainArg = CkptPath(10)
    /\ args.ckpts = {2, 10}
    /\ args.model_name_or_path = LocalModel
    /\ mpc = "done"

\* C7 (as claimed): with overwrite_output_dir and do_train set, trainer.train
\* is called with resume_from_checkpoint = None, whatever output_dir holds and
\* whatever model_name_or_path is.
C7_OverwriteTrainsFromScratch ==
    (trainArg # NotCalled /\ args.overwrite_output_dir) => trainArg = None

\* C7 (as amended): with overwrite_output_dir and do_train set, no checkpoint
\* is looked for in output_dir (last_checkpoint stays None, no ValueError), and
\* trainer.train is called with model_name_or_path when that is a directory
\* and with None only otherwise.
C7_OverwriteSkipsDetection ==
    (args.overwrite_output_dir /\ args.do_train) =>
      /\ last_checkpoint = None
      /\ raised # "ValueError"
      /\ trainArg # NotCalled =>
           trainArg = (IF ModelIsDir(args) THEN args.model_name_or_path ELSE None)
      /\ mpc \in {"eval", "done"} => trainArg # NotCalled

C7_Witness ==
    /\ args.overwrite_output_dir /\ args.do_train
    /\ args.ckpts = {2, 10} /\ args.other_files
    /\ args.model_name_or_path = LocalModel
    /\ trainArg = LocalModel
    /\ mpc = "done"


====
